---------------------------- MODULE Spec2Model ----------------------------
(***************************************************************************)
(* Metadata canonicalization, relationship inference and the LLM output    *)
(* contract layer of Fanduel-project-1.                                    *)
(*                                                                         *)
(* Python strings are TLA+ strings; TLC evaluates Len, \o, SubSeq, Head    *)
(* and Tail on them, so a character is a string of length one.             *)
(***************************************************************************)
EXTENDS Naturals, Integers, Sequences, FiniteSets, TLC

VARIABLES
    \* ---- name normalizers (TestSchema.py / data_dictionaries_schema.py)
    variant,        \* which normalize_table_name is exercised
    phys,           \* the physical name handed to it
    npc,            \* "start" | "once" | "twice" | "pair"
    once,           \* normalize_table_name(phys)
    twice,          \* normalize_table_name(once)
    pairA, pairB,   \* results for two names differing only by a suffix
    \* ---- metadata graph (both ingestion paths)
    path,           \* "csv" (process_csv_files) | "literal" (TestSchema.py)
    gpc,            \* position of the ingestion script
    nrows,          \* rows / raw tables consumed so far
    all_tables,     \* process_csv_files' insertion-ordered dict, as a sequence
    table_objects,  \* the TableSchema objects
    before,         \* table_objects as handed to discover_relationships
    relationships,  \* the RelationshipSchema objects
    dumped,         \* the serialized MetadataSchema, or NoGraph
    \* ---- LLM output contract layer (run_prompt_generation.py)
    retries,        \* call_model_json's retries argument
    cpc,            \* "idle" | "try" | "sleep" | "returned" | "raised" | ...
    attempt,        \* loop variable of call_model_json
    calls,          \* requests.post calls made
    sleeps,         \* time.sleep calls made
    trace,          \* what happened, in order: "ok" | "fail" | "sleep"
    last_err,       \* last_err
    raw_output,     \* value returned by call_model_json
    table_name,     \* table being documented
    result,         \* outcome of normalize_model_output
    \* ---- batch run of the documentation stage (run_prompt_generation.py main)
    grounding_data, \* the items loaded from GROUNDING_FILE
    item_no,        \* position of `for item in grounding_data`
    results,        \* results
    output_file,    \* what has been written to OUTPUT_FILE, or <<>>
    mpc,            \* "idle" | "loop" | "call" | "aborted" | "done"
    processing      \* positions of the items announced by "Processing: ..."

nvars == <<variant, phys, npc, once, twice, pairA, pairB>>
gvars == <<path, gpc, nrows, all_tables, table_objects, before, relationships, dumped>>
lvars == <<retries, cpc, attempt, calls, sleeps, trace, last_err, raw_output,
           table_name, result>>
mvars == <<grounding_data, item_no, results, output_file, mpc, processing>>
vars  == <<nvars, gvars, lvars, mvars>>

-----------------------------------------------------------------------------
(* Python str primitives *)

Char(s, i) == SubSeq(s, i, i)

\* sub in s
Contains(sub, s) ==
    \E i \in 1..(Len(s) - Len(sub) + 1) : SubSeq(s, i, i + Len(sub) - 1) = sub

StartsWith(s, p) == Len(p) <= Len(s) /\ SubSeq(s, 1, Len(p)) = p

UpperChars == "ABCDEFGHIJKLMNOPQRSTUVWXYZ"
LowerChars == "abcdefghijklmnopqrstuvwxyz"
Digits == {"0", "1", "2", "3", "4", "5", "6", "7", "8", "9"}

IsUpper(c) == \E i \in 1..26 : Char(UpperChars, i) = c
IsLower(c) == \E i \in 1..26 : Char(LowerChars, i) = c
IsDigit(c) == c \in Digits
IsSpace(c) == c \in {" ", "\t", "\n", "\r"}

LowerChar(c) ==
    IF IsUpper(c)
    THEN Char(LowerChars, CHOOSE i \in 1..26 : Char(UpperChars, i) = c)
    ELSE c

\* s.lower()
RECURSIVE Lower(_)
Lower(s) == IF s = "" THEN "" ELSE LowerChar(Head(s)) \o Lower(Tail(s))

\* s.replace(old, new), old non-empty: leftmost non-overlapping occurrences
RECURSIVE Replace(_, _, _)
Replace(s, old, new) ==
    IF s = "" THEN ""
    ELSE IF StartsWith(s, old)
         THEN new \o Replace(SubSeq(s, Len(old) + 1, Len(s)), old, new)
         ELSE Head(s) \o Replace(Tail(s), old, new)

RECURSIVE LStrip(_)
LStrip(s) == IF s # "" /\ IsSpace(Head(s)) THEN LStrip(Tail(s)) ELSE s

RECURSIVE RStrip(_)
RStrip(s) ==
    IF s # "" /\ IsSpace(Char(s, Len(s))) THEN RStrip(SubSeq(s, 1, Len(s) - 1)) ELSE s

\* s.strip()
Strip(s) == RStrip(LStrip(s))

\* position of the last "." of s, 0 when there is none
LastDot(s) ==
    IF Contains(".", s)
    THEN CHOOSE i \in 1..Len(s) :
            Char(s, i) = "." /\ \A j \in (i + 1)..Len(s) : Char(s, j) # "."
    ELSE 0

\* s.split(".")[-1]
LastSegment(s) == SubSeq(s, LastDot(s) + 1, Len(s))

\* ".".join(s.split(".")[:-1])
AllButLastSegment(s) == SubSeq(s, 1, LastDot(s) - 1)

\* number of leading digits of s
RECURSIVE DigitRun(_)
DigitRun(s) == IF s # "" /\ IsDigit(Head(s)) THEN 1 + DigitRun(Tail(s)) ELSE 0

\* re.sub(r'_v\d+', '', s)
RECURSIVE StripVersions(_)
StripVersions(s) ==
    IF s = "" THEN ""
    ELSE IF StartsWith(s, "_v") /\ DigitRun(SubSeq(s, 3, Len(s))) > 0
         THEN StripVersions(SubSeq(s, 3 + DigitRun(SubSeq(s, 3, Len(s))), Len(s)))
         ELSE Head(s) \o StripVersions(Tail(s))

-----------------------------------------------------------------------------
(* Name normalizers *)

\* TestSchema.py normalize_table_name
NormalizeLiteral(name) ==
    Replace(Replace(StripVersions(Lower(name)), "_enriched", ""), ".", "_")

TARGET_TABLES ==
    << "deposits", "deposits_enriched", "ledger_account_balances_v1",
       "ledger_lines_enriched", "verification_attempt",
       "verified_user_details", "withdrawals", "worldpay_transactions" >>

\* lines 57-59 of data_dictionaries_schema.py
UnqualifiedName(phys_name) ==
    LET name == Replace(Lower(phys_name), "\"", "")
    IN  IF Contains(".", name) THEN LastSegment(name) ELSE name

\* data_dictionaries_schema.py normalize_table_name
NormalizeRowExport(phys_name) ==
    LET name == UnqualifiedName(phys_name)
        hits == {i \in 1..Len(TARGET_TABLES) : Contains(TARGET_TABLES[i], name)}
    IN  IF hits # {}
        THEN LET target == TARGET_TABLES[CHOOSE i \in hits : \A j \in hits : i <= j]
             IN  Replace(Replace(target, "_v1", ""), "_enriched", "")
        ELSE Replace(name, ".", "_")

normalize_table_name(v, name) ==
    IF v = "literal" THEN NormalizeLiteral(name) ELSE NormalizeRowExport(name)


-----------------------------------------------------------------------------
(* Bounds and inputs of the normalizer runs *)

MaxFrags == 3

Frags == { "A", ".", "\"", "v", "1", "_v", "_enriched", "_enr", "iched",
           "ledger_lines" }

RECURSIVE FragStrings(_)
FragStrings(n) ==
    IF n = 0 THEN {""}
    ELSE LET prev == FragStrings(n - 1)
         IN  prev \cup {p \o f : p \in prev, f \in Frags}

\* physical names that occur in the repository
KnownNames ==
    { "foundation.financial.deposits", "foundation.financial.withdrawals",
      "foundation.financial.ledger_lines",
      "foundation.financial.ledger_account_balances",
      "foundation.financial.worldpay_transactions",
      "foundation.account.authgateway_session_created_events",
      "foundation.account.verification_attempt",
      "foundation.account.verified_user_details" }

PhysNames == FragStrings(MaxFrags) \cup KnownNames

\* version suffix and enriched marker, as they occur in the physical names
Suffixes == {"", "_v4", "_enriched", "_enriched_v1"}

NoPair == [name |-> "", canonical |-> ""]

NIdle ==
    /\ variant = "none" /\ phys = "" /\ npc = "idle"
    /\ once = "" /\ twice = "" /\ pairA = NoPair /\ pairB = NoPair

NInit ==
    /\ variant \in {"literal", "rowexport"}
    /\ phys \in PhysNames
    /\ npc = "start"
    /\ once = "" /\ twice = "" /\ pairA = NoPair /\ pairB = NoPair

\* canonical = normalize_table_name(phys)
NormalizeOnce ==
    /\ npc = "start"
    /\ once' = normalize_table_name(variant, phys)
    /\ npc' = "once"
    /\ UNCHANGED <<variant, phys, twice, pairA, pairB, gvars, lvars, mvars>>

\* normalize_table_name applied to its own output
NormalizeTwice ==
    /\ npc = "once"
    /\ twice' = normalize_table_name(variant, once)
    /\ npc' = "twice"
    /\ UNCHANGED <<variant, phys, once, pairA, pairB, gvars, lvars, mvars>>

\* two physical names of one concept: phys with two different suffixes
NormalizePair ==
    /\ npc = "start"
    /\ \E s1 \in Suffixes, s2 \in Suffixes :
          /\ pairA' = [name |-> phys \o s1,
                       canonical |-> normalize_table_name(variant, phys \o s1)]
          /\ pairB' = [name |-> phys \o s2,
                       canonical |-> normalize_table_name(variant, phys \o s2)]
    /\ npc' = "pair"
    /\ UNCHANGED <<variant, phys, once, twice, gvars, lvars, mvars>>

-----------------------------------------------------------------------------
(* Column, type and domain normalizers *)

\* data_dictionaries_schema.py normalize_column_name
NormalizeColumnRowExport(column_name) == Lower(Strip(column_name))

\* data_dictionaries_schema.py normalize_data_type
NormalizeTypeRowExport(data_type) ==
    LET t == Lower(data_type)
    IN  CASE t = "bigint"  -> "integer"
          [] t = "int"     -> "integer"
          [] t = "varchar" -> "string"
          [] t = "decimal" -> "decimal"
          [] OTHER         -> "string"

\* number of leading lower-case letters of s
RECURSIVE LowerRun(_)
LowerRun(s) == IF s # "" /\ IsLower(Head(s)) THEN 1 + LowerRun(Tail(s)) ELSE 0

\* re.sub('(.)([A-Z][a-z]+)', r'\1_\2', s)
RECURSIVE CamelWords(_)
CamelWords(s) ==
    IF s = "" THEN ""
    ELSE IF /\ Len(s) >= 3
            /\ Head(s) # "\n"
            /\ IsUpper(Char(s, 2))
            /\ IsLower(Char(s, 3))
         THEN LET run == LowerRun(SubSeq(s, 3, Len(s)))
              IN  Head(s) \o "_" \o SubSeq(s, 2, 2 + run)
                    \o CamelWords(SubSeq(s, 3 + run, Len(s)))
         ELSE Head(s) \o CamelWords(Tail(s))

\* re.sub('([a-z0-9])([A-Z])', r'\1_\2', s)
RECURSIVE CamelBoundaries(_)
CamelBoundaries(s) ==
    IF s = "" THEN ""
    ELSE IF /\ Len(s) >= 2
            /\ (IsLower(Head(s)) \/ IsDigit(Head(s)))
            /\ IsUpper(Char(s, 2))
         THEN Head(s) \o "_" \o Char(s, 2) \o CamelBoundaries(SubSeq(s, 3, Len(s)))
         ELSE Head(s) \o CamelBoundaries(Tail(s))

RECURSIVE DropUnderscores(_)
DropUnderscores(s) == IF s # "" /\ Head(s) = "_" THEN DropUnderscores(Tail(s)) ELSE s

\* re.sub(r'__+', '_', s)
RECURSIVE CollapseUnderscores(_)
CollapseUnderscores(s) ==
    IF s = "" THEN ""
    ELSE IF StartsWith(s, "__")
         THEN "_" \o CollapseUnderscores(DropUnderscores(s))
         ELSE Head(s) \o CollapseUnderscores(Tail(s))

\* TestSchema.py normalize_column_name
NormalizeColumnLiteral(column_name) ==
    CollapseUnderscores(Lower(CamelBoundaries(CamelWords(Strip(column_name)))))

\* TestSchema.py normalize_data_type
NormalizeTypeLiteral(data_type) ==
    LET t == Lower(data_type)
    IN  CASE t = "bigint"    -> "integer"
          [] t = "int"       -> "integer"
          [] t = "varchar"   -> "string"
          [] t = "decimal"   -> "decimal"
          [] t = "timestamp" -> "datetime"
          [] t = "date"      -> "date"
          [] OTHER           -> "string"

\* TestSchema.py get_table_type
get_table_type(name) ==
    IF Contains("_enriched", Lower(name)) THEN "ENRICHED" ELSE "RAW"

\* TestSchema.py assign_domain
assign_domain(name) ==
    IF Contains("financial", Lower(name)) THEN "Finance"
    ELSE IF Contains("account", Lower(name)) THEN "Account"
    ELSE "General"

\* data_dictionaries_schema.py, table_type= of the TableSchema built from a dict entry
TableTypeRowExport(phys_table) ==
    IF Contains("enriched", phys_table) THEN "ENRICHED" ELSE "RAW"

\* data_dictionaries_schema.py, domain= of the TableSchema built from a dict entry
DomainRowExport(phys_table) ==
    IF Contains("financial", phys_table) THEN "Finance" ELSE "Account"

\* data_dictionaries_schema.py, is_primary_key= of the ColumnSchema built from a row
IsPrimaryKey(norm_table, col_name) ==
    Contains("id", col_name) /\ Contains(norm_table, col_name)

-----------------------------------------------------------------------------
(* Relationship inference: data_dictionaries_schema.py discover_relationships *)

\* a discovery that links only towards the "master" tables of line 83
SkipTargetUnlessMaster(source_table, target_table) ==
    \/ source_table.canonical_id = target_table.canonical_id
    \/ ~(Contains("user", target_table.canonical_id)
           \/ Contains("details", target_table.canonical_id))

\* the `continue` of the target loop
SkipTarget(source_table, target_table) ==
    source_table.canonical_id = target_table.canonical_id

\* a match on the name alone, without the "id" test
ColumnsMatchByName(col, target_col) == col.name = target_col.name

\* the match condition of the innermost loop
ColumnsMatch(col, target_col) ==
    col.name = target_col.name /\ Contains("id", col.name)

\* the RelationshipSchema appended on a match
Edge(source_table, col, target_table, target_col) ==
    [ source_table      |-> source_table.canonical_id,
      source_column     |-> col.canonical_id,
      target_table      |-> target_table.canonical_id,
      target_column     |-> target_col.canonical_id,
      relationship_type |-> "linked_by_id",
      description       |-> "Auto-detected link via " \o col.name ]

\* for target_col in target_table.columns, from position d on
RECURSIVE EdgesOverTargetCols(_, _, _, _)
EdgesOverTargetCols(source_table, col, target_table, d) ==
    IF d > Len(target_table.columns) THEN <<>>
    ELSE (IF ColumnsMatch(col, target_table.columns[d])
          THEN <<Edge(source_table, col, target_table, target_table.columns[d])>>
          ELSE <<>>)
         \o EdgesOverTargetCols(source_table, col, target_table, d + 1)

\* for target_table in tables, from position t on
RECURSIVE EdgesOverTargets(_, _, _, _)
EdgesOverTargets(tables, source_table, col, t) ==
    IF t > Len(tables) THEN <<>>
    ELSE (IF SkipTarget(source_table, tables[t])
          THEN <<>>
          ELSE EdgesOverTargetCols(source_table, col, tables[t], 1))
         \o EdgesOverTargets(tables, source_table, col, t + 1)

\* for col in source_table.columns, from position c on
RECURSIVE EdgesOverCols(_, _, _)
EdgesOverCols(tables, source_table, c) ==
    IF c > Len(source_table.columns) THEN <<>>
    ELSE EdgesOverTargets(tables, source_table, source_table.columns[c], 1)
         \o EdgesOverCols(tables, source_table, c + 1)

\* for source_table in tables, from position s on
RECURSIVE EdgesOverSources(_, _)
EdgesOverSources(tables, s) ==
    IF s > Len(tables) THEN <<>>
    ELSE EdgesOverCols(tables, tables[s], 1) \o EdgesOverSources(tables, s + 1)

\* the value discover_relationships returns
discover_relationships(tables) == EdgesOverSources(tables, 1)

\* a pass that flags every column named like an identifier, matched or not
FlagIdColumns(tables) ==
    [ s \in 1..Len(tables) |->
        [ tables[s] EXCEPT !.columns =
            [ c \in 1..Len(tables[s].columns) |->
                IF Contains("id", tables[s].columns[c].name)
                THEN [tables[s].columns[c] EXCEPT !.is_foreign_key = TRUE]
                ELSE tables[s].columns[c] ] ] ]

\* the tables after the call: col.is_foreign_key = True wherever a match was found
FlagForeignKeys(tables) ==
    [ s \in 1..Len(tables) |->
        [ tables[s] EXCEPT !.columns =
            [ c \in 1..Len(tables[s].columns) |->
                IF EdgesOverTargets(tables, tables[s], tables[s].columns[c], 1) # <<>>
                THEN [tables[s].columns[c] EXCEPT !.is_foreign_key = TRUE]
                ELSE tables[s].columns[c] ] ] ]

-----------------------------------------------------------------------------
(* Row-export ingestion: data_dictionaries_schema.py process_csv_files *)

MaxRows == 4

Text(t) == [isna |-> FALSE, text |-> t]
NaN == [isna |-> TRUE, text |-> "nan"]

Row(key, props, dtype, description) ==
    [ key |-> key, al_datadict_item_properties |-> props,
      al_datadict_item_column_data_type |-> dtype, description |-> description ]

\* rows of the data-dictionary exports
Rows ==
    { Row("foundation.financial.deposits.user_id", "otype=attribute", "varchar", Text("user")),
      Row("foundation.financial.deposits.amount", "otype=attribute", "decimal", NaN),
      Row("foundation.financial.deposits.deposit_id", "otype=attribute", "bigint", Text("key")),
      Row("foundation.account.verified_user_details.user_id", "otype=attribute", "varchar", Text("user")),
      Row("foundation.account.verified_user_details.country", "otype=attribute", "varchar", Text("")),
      Row("foundation.financial.deposits_enriched.user_id", "otype=attribute", "varchar", Text("user")),
      Row("foundation.financial.ledger_account_balances_v1.amount", "otype=attribute", "decimal", Text("")),
      Row("foundation.misc.session. Session_ID", "otype=attribute", "uuid", Text("")),
      Row("foundation.account.verified_user_details.table", "otype=table", "", Text("verified users")),
      Row("orphan", "otype=attribute", "int", Text("")) }

\* position of the entry of all_tables whose key is name, 0 when there is none
IndexOf(tables, name) ==
    IF \E i \in 1..Len(tables) : tables[i].name = name
    THEN CHOOSE i \in 1..Len(tables) : tables[i].name = name
    ELSE 0

\* the ColumnSchema built from a column row
ColumnOfRow(norm_table, row) ==
    LET col_name == NormalizeColumnRowExport(LastSegment(row.key))
    IN  [ name           |-> col_name,
          data_type      |-> NormalizeTypeRowExport(row.al_datadict_item_column_data_type),
          canonical_id   |-> norm_table \o "." \o col_name,
          is_primary_key |-> IsPrimaryKey(norm_table, col_name),
          is_foreign_key |-> FALSE,
          description    |-> IF row.description.isna THEN "" ELSE row.description.text ]

\* what the loop body computes from the row alone: the skip test, phys_table,
\* norm_table, the otype=table test and the ColumnSchema of a column row
ParseRow(row) ==
    IF row.key = "" \/ ~Contains(".", row.key)
    THEN [ skip |-> TRUE, phys_table |-> "", norm_table |-> "", is_table |-> FALSE,
           column |-> <<>> ]
    ELSE LET phys_table == AllButLastSegment(row.key)
             norm_table == NormalizeRowExport(phys_table)
             is_table == Contains("otype=table", row.al_datadict_item_properties)
         IN  [ skip |-> FALSE, phys_table |-> phys_table, norm_table |-> norm_table,
               is_table |-> is_table,
               column |-> IF is_table THEN <<>> ELSE <<ColumnOfRow(norm_table, row)>> ]

\* ParseRow, evaluated once for each row of Rows
Parsed == [row \in Rows |-> ParseRow(row)]

\* all_tables after the loop body has run on row
AfterRow(tables, row) ==
    IF Parsed[row].skip THEN tables
    ELSE LET phys_table == Parsed[row].phys_table
             norm_table == Parsed[row].norm_table
             known == IF IndexOf(tables, norm_table) = 0
                      THEN Append(tables, [ name |-> norm_table, phys |-> phys_table,
                                            cols |-> <<>>, desc |-> Text("") ])
                      ELSE tables
             i == IndexOf(known, norm_table)
         IN  IF Parsed[row].is_table
             THEN [known EXCEPT ![i].desc = row.description]
             ELSE [known EXCEPT ![i].cols = @ \o Parsed[row].column]

\* the TableSchema built from an entry of all_tables
TableOfEntry(data) ==
    [ table_name    |-> data.name,
      physical_name |-> data.phys,
      table_type    |-> TableTypeRowExport(data.phys),
      domain        |-> DomainRowExport(data.phys),
      columns       |-> data.cols,
      canonical_id  |-> data.name,
      description   |-> data.desc ]

GIdle ==
    /\ path = "none" /\ gpc = "idle" /\ nrows = 0
    /\ all_tables = <<>> /\ table_objects = <<>> /\ before = <<>>
    /\ relationships = <<>> /\ dumped = <<>>

GInit ==
    /\ path \in {"csv", "literal"}
    /\ gpc = "rows" /\ nrows = 0
    /\ all_tables = <<>> /\ table_objects = <<>> /\ before = <<>>
    /\ relationships = <<>> /\ dumped = <<>>

\* one iteration of `for _, row in df.iterrows()`
ProcessRow ==
    /\ path = "csv" /\ gpc = "rows" /\ nrows < MaxRows
    /\ \E row \in Rows : all_tables' = AfterRow(all_tables, row)
    /\ nrows' = nrows + 1
    /\ UNCHANGED <<path, gpc, table_objects, before, relationships, dumped, nvars, lvars, mvars>>

\* "Convert to objects": the rows are exhausted
ConvertToObjects ==
    /\ path = "csv" /\ gpc = "rows"
    /\ table_objects' = [i \in 1..Len(all_tables) |-> TableOfEntry(all_tables[i])]
    /\ gpc' = "objects"
    /\ UNCHANGED <<path, nrows, all_tables, before, relationships, dumped, nvars, lvars, mvars>>

\* rels = discover_relationships(table_objects); return MetadataSchema(...)
DiscoverRelationships ==
    /\ path = "csv" /\ gpc = "objects"
    /\ before' = table_objects
    /\ relationships' = discover_relationships(table_objects)
    /\ table_objects' = FlagForeignKeys(table_objects)
    /\ gpc' = "returned"
    /\ UNCHANGED <<path, nrows, all_tables, dumped, nvars, lvars, mvars>>

\* json.dump(asdict(final_metadata), f)
DumpMetadata ==
    /\ path = "csv" /\ gpc = "returned"
    /\ dumped' = <<[tables |-> table_objects, relationships |-> relationships]>>
    /\ gpc' = "dumped"
    /\ UNCHANGED <<path, nrows, all_tables, table_objects, before, relationships,
                   nvars, lvars, mvars>>

-----------------------------------------------------------------------------
(* Literal-definition ingestion: the TestSchema.py script *)

Col(name, type) == [name |-> name, type |-> type]

raw_metadata ==
    <<
      [ table_name |-> "foundation.financial.ledger_lines_enriched_v1",
        columns |-> <<
            Col("ledger_line_id", "bigint"),
            Col("account_id", "varchar"),
            Col("transaction_id", "varchar"),
            Col("entry_date", "timestamp"),
            Col("amount", "decimal") >> ],
      [ table_name |-> "foundation.financial.deposits_v4",
        columns |-> <<
            Col("deposit_id", "bigint"),
            Col("user_id", "varchar"),
            Col("amount", "decimal"),
            Col("method", "varchar"),
            Col("deposit_date", "timestamp") >> ],
      [ table_name |-> "foundation.financial.deposits_enriched_v1",
        columns |-> <<
            Col("deposit_id", "bigint"),
            Col("user_id", "varchar"),
            Col("amount", "decimal"),
            Col("transaction_id", "varchar"),
            Col("status", "varchar") >> ],
      [ table_name |-> "foundation.financial.withdrawals_v4",
        columns |-> <<
            Col("withdrawal_id", "bigint"),
            Col("user_id", "varchar"),
            Col("amount", "decimal"),
            Col("withdrawal_date", "timestamp"),
            Col("method", "varchar") >> ],
      [ table_name |-> "foundation.financial.withdrawals_enriched_v4",
        columns |-> <<
            Col("withdrawal_id", "bigint"),
            Col("user_id", "varchar"),
            Col("amount", "decimal"),
            Col("status", "varchar"),
            Col("transaction_id", "varchar") >> ],
      [ table_name |-> "foundation.financial.ledger_account_balances_v1",
        columns |-> <<
            Col("account_id", "varchar"),
            Col("user_id", "varchar"),
            Col("balance", "decimal"),
            Col("as_of_date", "date"),
            Col("currency", "varchar") >> ],
      [ table_name |-> "foundation.financial.worldpay_transactions",
        columns |-> <<
            Col("transaction_id", "varchar"),
            Col("transaction_type", "varchar"),
            Col("amount", "decimal"),
            Col("status", "varchar"),
            Col("user_id", "varchar") >> ],
      [ table_name |-> "foundation.account.authgateway_session_created_events",
        columns |-> <<
            Col("session_id", "varchar"),
            Col("user_id", "varchar"),
            Col("success", "varchar"),
            Col("device_type", "varchar"),
            Col("created_at", "timestamp") >> ],
      [ table_name |-> "foundation.account.verification_attempt_v1",
        columns |-> <<
            Col("attempt_id", "varchar"),
            Col("user_id", "varchar"),
            Col("verification_type", "varchar"),
            Col("result", "varchar"),
            Col("attempted_at", "timestamp") >> ],
      [ table_name |-> "foundation.account.verified_user_details",
        columns |-> <<
            Col("user_id", "varchar"),
            Col("verification_level", "varchar"),
            Col("verified_date", "timestamp"),
            Col("country", "varchar"),
            Col("active", "varchar") >> ]
    >>

Rel(source_table, source_column, target_table, target_column, relationship_type, description) ==
    [ source_table      |-> source_table,
      source_column     |-> source_column,
      target_table      |-> target_table,
      target_column     |-> target_column,
      relationship_type |-> relationship_type,
      description       |-> description ]

\* the curated list of STEP 5
CuratedRelationships ==
    <<
      Rel("foundation_financial_deposits", "account_id",
          "foundation_account_verified_user_details", "user_id",
          "belongs_to",
          "Deposits are made into accounts owned by verified users."),
      Rel("foundation_financial_withdrawals", "account_id",
          "foundation_account_verified_user_details", "user_id",
          "belongs_to",
          "Withdrawals are performed by users associated with accounts."),
      Rel("foundation_financial_ledger_account_balances", "account_id",
          "foundation_account_verified_user_details", "user_id",
          "account_owner",
          "Ledger account balances correspond to verified users."),
      Rel("foundation_account_authgateway_session_created_events", "user_id",
          "foundation_account_verified_user_details", "user_id",
          "session_of",
          "Authentication sessions belong to verified users."),
      Rel("foundation_account_verification_attempt", "user_id",
          "foundation_account_verified_user_details", "user_id",
          "verification_event",
          "Verification attempts relate to user identity validation."),
      Rel("foundation_financial_worldpay_transactions", "account_id",
          "foundation_account_verified_user_details", "user_id",
          "payment_transaction",
          "Worldpay transactions originate from user-linked accounts.")
    >>

\* the TableSchema built by one iteration of `for table in raw_metadata`
StructuredTable(table) ==
    LET phys_name == table.table_name
        norm_name == NormalizeLiteral(phys_name)
        t_type    == get_table_type(phys_name)
    IN  [ table_name    |-> norm_name,
          physical_name |-> phys_name,
          table_type    |-> t_type,
          domain        |-> assign_domain(phys_name),
          columns       |-> [ c \in 1..Len(table.columns) |->
                                [ name        |-> NormalizeColumnLiteral(table.columns[c].name),
                                  data_type   |-> NormalizeTypeLiteral(table.columns[c].type),
                                  description |-> "" ] ],
          description   |-> "This is the " \o t_type \o " version of the "
                              \o norm_name \o " concept." ]

\* one iteration of `for table in raw_metadata`
StructureTable ==
    /\ path = "literal" /\ gpc = "rows" /\ nrows < Len(raw_metadata)
    /\ table_objects' = Append(table_objects, StructuredTable(raw_metadata[nrows + 1]))
    /\ nrows' = nrows + 1
    /\ UNCHANGED <<path, gpc, all_tables, before, relationships, dumped, nvars, lvars, mvars>>

\* STEP 5: relationships = [...]
DefineRelationships ==
    /\ path = "literal" /\ gpc = "rows" /\ nrows = Len(raw_metadata)
    /\ relationships' = CuratedRelationships
    /\ gpc' = "returned"
    /\ UNCHANGED <<path, nrows, all_tables, table_objects, before, dumped, nvars, lvars, mvars>>

\* STEP 6 and 7: metadata_model = MetadataSchema(...); json.dump(asdict(metadata_model), f)
ExportMetadata ==
    /\ path = "literal" /\ gpc = "returned"
    /\ dumped' = <<[tables |-> table_objects, relationships |-> relationships]>>
    /\ gpc' = "dumped"
    /\ UNCHANGED <<path, nrows, all_tables, table_objects, before, relationships,
                   nvars, lvars, mvars>>

-----------------------------------------------------------------------------
(* LLM output contract layer: run_prompt_generation.py *)

\* JSON / Python values
Str(x)  == [t |-> "str",  s |-> x,  items |-> <<>>]
List(x) == [t |-> "list", s |-> "", items |-> x]
None    == [t |-> "none", s |-> "", items |-> <<>>]

RECURSIVE Repr(_)
RECURSIVE ReprItems(_)
\* repr(v)
Repr(v) ==
    CASE v.t = "str"  -> "'" \o v.s \o "'"
      [] v.t = "none" -> "None"
      [] v.t = "list" -> "[" \o ReprItems(v.items) \o "]"
ReprItems(items) ==
    IF items = <<>> THEN ""
    ELSE IF Len(items) = 1 THEN Repr(items[1])
    ELSE Repr(items[1]) \o ", " \o ReprItems(Tail(items))

\* str(v)
PyStr(v) == IF v.t = "str" THEN v.s ELSE Repr(v)

\* not str(v).strip()
IsBlank(v) == Strip(PyStr(v)) = ""

\* key_map of normalize_model_output, in its order
key_map ==
    << [ required_key |-> "governance_doc_markdown",
         variants |-> <<"governance_doc_markdown", "governance_markdown",
                        "governanceDocMarkdown">> ],
       [ required_key |-> "delta_ontology_ttl",
         variants |-> <<"delta_ontology_ttl", "delta_ontology", "deltaOntologyTtl",
                        "delta_ttl", "deltaOntologyTTL">> ],
       [ required_key |-> "new_terms",
         variants |-> <<"new_terms", "newTerms", "added_terms", "addedTerms">> ] >>

\* the variants of a required key that the output holds, by position
Found(output, variants) == {i \in 1..Len(variants) : variants[i] \in DOMAIN output}

\* the first `for` loop: normalized[required_key] = output[v] for the first v found
PickAliases(output) ==
    LET hit == {k \in 1..Len(key_map) : Found(output, key_map[k].variants) # {}}
        first(k) == CHOOSE i \in Found(output, key_map[k].variants) :
                        \A j \in Found(output, key_map[k].variants) : i <= j
    IN  [ rk \in {key_map[k].required_key : k \in hit} |->
            LET k == CHOOSE k \in hit : key_map[k].required_key = rk
            IN  output[key_map[k].variants[first(k)]] ]

\* "Defaults": new_terms
DefaultNewTerms(normalized) ==
    IF "new_terms" \notin DOMAIN normalized \/ normalized["new_terms"] = None
    THEN ("new_terms" :> List(<<>>)) @@ normalized
    ELSE normalized

\* "Defaults": delta_ontology_ttl
DefaultDelta(normalized) ==
    IF "delta_ontology_ttl" \notin DOMAIN normalized
         \/ IsBlank(normalized["delta_ontology_ttl"])
    THEN ("delta_ontology_ttl" :> Str("# No delta required")) @@ normalized
    ELSE normalized

\* a requirement that tests the key's presence only
GovernanceAbsent(normalized) == "governance_doc_markdown" \notin DOMAIN normalized

\* "Hard requirement": the condition of the raise
GovernanceMissing(normalized) ==
    "governance_doc_markdown" \notin DOMAIN normalized
        \/ IsBlank(normalized["governance_doc_markdown"])

\* a coercion that wraps whatever it is given, a sequence included
WrapAlways(normalized) == [normalized EXCEPT !["new_terms"] = List(<<@>>)]

\* "Ensure types"
EnsureList(normalized) ==
    IF normalized["new_terms"].t # "list"
    THEN [normalized EXCEPT !["new_terms"] = List(<<@>>)]
    ELSE normalized

Returned(value) == [raised |-> FALSE, message |-> "", value |-> value]
Raised(message) == [raised |-> TRUE, message |-> message, value |-> <<>>]
NoResult == [raised |-> FALSE, message |-> "", value |-> <<>>]

\* normalize_model_output(output, table_name): the dict returned or the error raised
normalize_model_output(output, name) ==
    LET normalized == DefaultDelta(DefaultNewTerms(PickAliases(output)))
    IN  IF GovernanceMissing(normalized)
        THEN Raised("Missing governance_doc_markdown in model output for table " \o name)
        ELSE Returned(EnsureList(normalized))

MaxRetries == 2
MaxKeys == 2

\* keys the model has been seen to answer with
GovKeys   == {"governance_doc_markdown", "governance_markdown", "governanceDocMarkdown",
              "governanceMarkdown"}
DeltaKeys == {"delta_ontology_ttl", "delta_ontology", "deltaOntologyTtl", "delta_ttl",
              "deltaOntologyTTL"}
TermKeys  == {"new_terms", "newTerms", "added_terms", "addedTerms"}

GovValues   == {Str("X"), Str(""), Str(" \n"), None}
DeltaValues == {Str("@prefix"), Str("  "), None}
TermValues  == {List(<<Str("a")>>), Str("a"), None}

ValuesOf(k) ==
    IF k \in GovKeys THEN GovValues ELSE IF k \in DeltaKeys THEN DeltaValues ELSE TermValues

\* decoded JSON objects the service may answer with
RawOutputs ==
    UNION { { f \in [K -> GovValues \cup DeltaValues \cup TermValues] :
                \A k \in K : f[k] \in ValuesOf(k) } :
            K \in {K \in SUBSET (GovKeys \cup DeltaKeys \cup TermKeys) :
                      Cardinality(K) <= MaxKeys} }

\* what makes an attempt fail: transport error, bad status, empty response, bad JSON
Failures == {"ConnectionError", "HTTPError", "Empty response from model", "JSONDecodeError"}

TableNames == {"deposits", "withdrawals"}

\* the answers enumerated for the batch run: a document, a document under alias
\* keys with a scalar term, a blank document
BatchAnswers ==
    { ("governance_doc_markdown" :> Str("X")),
      ("governance_markdown" :> Str("X")) @@ ("addedTerms" :> Str("a")),
      ("governance_doc_markdown" :> Str(" \n")) }

\* response.json().get("response") decoded by json.loads
Answers == IF mpc = "idle" THEN RawOutputs ELSE BatchAnswers

LIdle ==
    /\ retries = 0 /\ cpc = "idle" /\ attempt = 0 /\ calls = 0 /\ sleeps = 0
    /\ trace = <<>> /\ last_err = "" /\ raw_output = <<>> /\ table_name = ""
    /\ result = NoResult

\* call_model_json(prompt, retries) is entered for table_name
LInit ==
    /\ retries \in 0..MaxRetries
    /\ table_name \in TableNames
    /\ cpc = "try" /\ attempt = 0 /\ calls = 0 /\ sleeps = 0
    /\ trace = <<>> /\ last_err = "" /\ raw_output = <<>>
    /\ result = NoResult

\* the try block runs to `return json.loads(response_text)`
AttemptSucceeds ==
    /\ cpc = "try" /\ attempt < retries + 1
    /\ \E out \in Answers : raw_output' = out
    /\ calls' = calls + 1
    /\ trace' = Append(trace, "call-ok")
    /\ cpc' = "returned"
    /\ UNCHANGED <<retries, attempt, sleeps, last_err, table_name, result, nvars, gvars, mvars>>

\* an except clause that sleeps before it looks at the attempt number
AttemptFailsAlwaysSleeps ==
    /\ cpc = "try" /\ attempt < retries + 1
    /\ \E e \in Failures : last_err' = e
    /\ calls' = calls + 1
    /\ sleeps' = sleeps + 1
    /\ trace' = trace \o <<"call-failed", "sleep">>
    /\ IF attempt < retries
       THEN cpc' = "try" /\ attempt' = attempt + 1 /\ UNCHANGED result
       ELSE /\ cpc' = "raised" /\ UNCHANGED attempt
            /\ result' = Raised("Model JSON call failed after retries: " \o last_err')
    /\ UNCHANGED <<retries, raw_output, table_name, nvars, gvars, mvars>>

\* the try block raises; the except clause decides between sleeping and raising
AttemptFails ==
    /\ cpc = "try" /\ attempt < retries + 1
    /\ \E e \in Failures : last_err' = e
    /\ calls' = calls + 1
    /\ trace' = Append(trace, "call-failed")
    /\ IF attempt < retries
       THEN cpc' = "sleep" /\ UNCHANGED result
       ELSE /\ cpc' = "raised"
            /\ result' = Raised("Model JSON call failed after retries: " \o last_err')
    /\ UNCHANGED <<retries, attempt, sleeps, raw_output, table_name, nvars, gvars, mvars>>

\* time.sleep(sleep_s), then the next iteration of the for loop
Sleep ==
    /\ cpc = "sleep"
    /\ sleeps' = sleeps + 1
    /\ trace' = Append(trace, "sleep")
    /\ attempt' = attempt + 1
    /\ cpc' = "try"
    /\ UNCHANGED <<retries, calls, last_err, raw_output, table_name, result, nvars, gvars, mvars>>

\* output = normalize_model_output(raw_output, table_name)
NormalizeOutput ==
    /\ cpc = "returned"
    /\ result' = normalize_model_output(raw_output, table_name)
    /\ cpc' = IF result'.raised THEN "rejected" ELSE "normalized"
    /\ UNCHANGED <<retries, attempt, calls, sleeps, trace, last_err, raw_output,
                   table_name, nvars, gvars, mvars>>

-----------------------------------------------------------------------------
(* Batch run of the documentation stage: run_prompt_generation.py main *)

MaxItems == 3

\* `not v`
Falsy(v) ==
    \/ v = None
    \/ v.t = "str" /\ v.s = ""
    \/ v.t = "list" /\ v.items = <<>>

\* item.get("technical_table") of the items of the grounding file; None is
\* also what .get returns when the key is absent
TechnicalTables == {Str(t) : t \in TableNames} \cup {Str(""), None}

GroundingFiles ==
    UNION { [1..n -> [technical_table : TechnicalTables]] : n \in 0..MaxItems }

NoCall ==
    /\ retries' = 0 /\ cpc' = "idle" /\ attempt' = 0 /\ calls' = 0 /\ sleeps' = 0
    /\ trace' = <<>> /\ last_err' = "" /\ raw_output' = <<>> /\ table_name' = ""
    /\ result' = NoResult

MIdle ==
    /\ grounding_data = <<>> /\ item_no = 0 /\ results = <<>> /\ output_file = <<>>
    /\ mpc = "idle" /\ processing = <<>>

\* main after the inputs are loaded and results = []
MInit ==
    /\ grounding_data \in GroundingFiles
    /\ item_no = 1 /\ results = <<>> /\ output_file = <<>>
    /\ mpc = "loop" /\ processing = <<>>

\* if not table_name: continue
SkipItem ==
    /\ mpc = "loop" /\ item_no <= Len(grounding_data)
    /\ Falsy(grounding_data[item_no].technical_table)
    /\ item_no' = item_no + 1
    /\ UNCHANGED <<grounding_data, results, output_file, mpc, processing,
                   nvars, gvars, lvars>>

\* print("Processing: ..."), the contexts and the prompt are built,
\* call_model_json(prompt, retries=1) is entered
ProcessItem ==
    /\ mpc = "loop" /\ item_no <= Len(grounding_data)
    /\ ~Falsy(grounding_data[item_no].technical_table)
    /\ processing' = Append(processing, item_no)
    /\ table_name' = grounding_data[item_no].technical_table.s
    /\ retries' = 1
    /\ cpc' = "try" /\ attempt' = 0 /\ calls' = 0 /\ sleeps' = 0
    /\ trace' = <<>> /\ last_err' = "" /\ raw_output' = <<>>
    /\ result' = NoResult
    /\ mpc' = "call"
    /\ UNCHANGED <<grounding_data, item_no, results, output_file, nvars, gvars>>

\* results.append({"table": table_name, "output": output}), next iteration
AppendResult ==
    /\ mpc = "call" /\ cpc = "normalized"
    /\ results' = Append(results, [table |-> table_name, output |-> result.value])
    /\ item_no' = item_no + 1
    /\ mpc' = "loop"
    /\ NoCall
    /\ UNCHANGED <<grounding_data, output_file, processing, nvars, gvars>>

\* a loop that catches the error of a table and goes on with the next one
ContinueAfterError ==
    /\ mpc = "call" /\ cpc \in {"raised", "rejected"}
    /\ item_no' = item_no + 1
    /\ mpc' = "loop"
    /\ NoCall
    /\ UNCHANGED <<grounding_data, results, output_file, processing, nvars, gvars>>

\* the RuntimeError of call_model_json or normalize_model_output is caught
\* nowhere in main: it leaves the loop and main
Propagate ==
    /\ mpc = "call" /\ cpc \in {"raised", "rejected"}
    /\ mpc' = "aborted"
    /\ UNCHANGED <<grounding_data, item_no, results, output_file, processing,
                   nvars, gvars, lvars>>

\* the loop is exhausted: json.dump(results, f), print("DONE ...")
WriteResults ==
    /\ mpc = "loop" /\ item_no > Len(grounding_data)
    /\ output_file' = <<results>>
    /\ mpc' = "done"
    /\ UNCHANGED <<grounding_data, item_no, results, processing, nvars, gvars, lvars>>

-----------------------------------------------------------------------------
(* Specifications *)

GNext ==
    \/ ProcessRow
    \/ ConvertToObjects
    \/ DiscoverRelationships
    \/ DumpMetadata
    \/ StructureTable
    \/ DefineRelationships
    \/ ExportMetadata

\* the two ingestion scripts
Init == GInit /\ NIdle /\ LIdle /\ MIdle
Spec == Init /\ [][GNext]_vars

NNext == NormalizeOnce \/ NormalizeTwice \/ NormalizePair

\* normalize_table_name on bounded inputs
InitNorm == NInit /\ GIdle /\ LIdle /\ MIdle
SpecNorm == InitNorm /\ [][NNext]_vars

LNext == AttemptSucceeds \/ AttemptFails \/ Sleep \/ NormalizeOutput

\* one table of the documentation stage; every request ends (timeout=600) and
\* every sleep returns, so the loop keeps taking steps
InitLLM == LInit /\ GIdle /\ NIdle /\ MIdle
SpecLLM == InitLLM /\ [][LNext]_vars /\ WF_vars(LNext)

MNext ==
    \/ SkipItem
    \/ ProcessItem
    \/ AttemptSucceeds
    \/ AttemptFails
    \/ Sleep
    \/ NormalizeOutput
    \/ AppendResult
    \/ Propagate
    \/ WriteResults

\* main over a bounded grounding file
InitMain == MInit /\ GIdle /\ NIdle /\ LIdle
SpecMain == InitMain /\ [][MNext]_vars

-----------------------------------------------------------------------------
(* Properties of relationship discovery and of the serialized graph *)

Discovered == path = "csv" /\ gpc \in {"returned", "dumped"}

ColNames(t) == [i \in 1..Len(t.columns) |-> t.columns[i].name]

HasEdge(S, c, T, d) ==
    \E k \in 1..Len(relationships) :
        /\ relationships[k].source_table = S.canonical_id
        /\ relationships[k].source_column = c.canonical_id
        /\ relationships[k].target_table = T.canonical_id
        /\ relationships[k].target_column = d.canonical_id
        /\ relationships[k].relationship_type = "linked_by_id"

DiscoverySound ==
    Discovered =>
        \A k \in 1..Len(relationships) :
            /\ relationships[k].source_table # relationships[k].target_table
            /\ \E s \in 1..Len(before), t \in 1..Len(before) :
                  /\ s # t
                  /\ before[s].canonical_id = relationships[k].source_table
                  /\ before[t].canonical_id = relationships[k].target_table
                  /\ \E c \in 1..Len(before[s].columns), d \in 1..Len(before[t].columns) :
                        /\ before[s].columns[c].canonical_id = relationships[k].source_column
                        /\ before[t].columns[d].canonical_id = relationships[k].target_column
                        /\ before[s].columns[c].name = before[t].columns[d].name
                        /\ Contains("id", before[s].columns[c].name)
                        /\ relationships[k].description
                             = "Auto-detected link via " \o before[s].columns[c].name

\* two tables share a column whose name has no "id" in it and a third shares
\* user_id: only the user_id pair is linked
DiscoverySoundWitness ==
    /\ Discovered
    /\ Len(relationships) = 2
    /\ \E s \in 1..Len(before), t \in 1..Len(before) :
          /\ s # t
          /\ \E c \in 1..Len(before[s].columns), d \in 1..Len(before[t].columns) :
                /\ before[s].columns[c].name = "amount"
                /\ before[t].columns[d].name = "amount"

TableId(t) == IF path = "csv" THEN t.canonical_id ELSE t.table_name
ColumnId(c) == IF path = "csv" THEN c.canonical_id ELSE c.name

Owns(graph, table_id, column_id) ==
    \E i \in 1..Len(graph.tables) :
        /\ TableId(graph.tables[i]) = table_id
        /\ \E c \in 1..Len(graph.tables[i].columns) :
              ColumnId(graph.tables[i].columns[c]) = column_id

\* C3: in the graph that is serialized, by either path, every relationship's
\* source and target name a table of the graph and a column this table owns.
NoDanglingReferences ==
    gpc = "dumped" =>
        \A k \in 1..Len(dumped[1].relationships) :
            LET r == dumped[1].relationships[k]
            IN  /\ Owns(dumped[1], r.source_table, r.source_column)
                /\ Owns(dumped[1], r.target_table, r.target_column)

\* C4: a column deposit_id of the table deposits is built as a primary key,
\* a column user_id of that table is not.
PrimaryKeyHeuristic ==
    path = "csv" =>
        \A i \in 1..Len(all_tables) :
            all_tables[i].name = "deposits" =>
                \A c \in 1..Len(all_tables[i].cols) :
                    /\ all_tables[i].cols[c].name = "deposit_id"
                          => all_tables[i].cols[c].is_primary_key
                    /\ all_tables[i].cols[c].name = "user_id"
                          => ~all_tables[i].cols[c].is_primary_key

\* C7: every table built by either path has domain Finance when its physical
\* name contains "financial", else Account when it contains "account", else
\* General.
DomainFirstMatch ==
    \A i \in 1..Len(table_objects) :
        table_objects[i].domain =
            IF Contains("financial", table_objects[i].physical_name) THEN "Finance"
            ELSE IF Contains("account", table_objects[i].physical_name) THEN "Account"
            ELSE "General"

-----------------------------------------------------------------------------
(* Properties of normalize_table_name *)

\* C5: normalize_table_name applied to its own output returns that output, in
\* both variants.
Idempotent == npc = "twice" => twice = once

\* C6: two physical names that differ only by a version suffix and/or the
\* enriched marker get the same canonical name, in both variants.
StableUnderSuffixes == npc = "pair" => pairA.canonical = pairB.canonical

-----------------------------------------------------------------------------
(* Properties of the LLM output contract layer *)

CallEnded == cpc \in {"returned", "raised", "normalized", "rejected"}
CallRaised == cpc = "raised"
CallReturned == cpc \in {"returned", "normalized", "rejected"}

IsCall(e) == e \in {"call-ok", "call-failed"}
Count(seq, S) == Cardinality({i \in 1..Len(seq) : seq[i] \in S})

BoundedAttempts ==
    /\ calls <= retries + 1
    /\ calls = Count(trace, {"call-ok", "call-failed"})
    /\ sleeps = Count(trace, {"sleep"})
    \* the first success is the end of the call
    /\ \A i \in 1..Len(trace) : trace[i] = "call-ok" => i = Len(trace)
    /\ CallReturned <=> (trace # <<>> /\ trace[Len(trace)] = "call-ok")
    \* the error is raised by the last of retries + 1 failed attempts
    /\ CallRaised =>
          /\ calls = retries + 1
          /\ \A i \in 1..Len(trace) : trace[i] # "call-ok"
          /\ trace[Len(trace)] = "call-failed"
          /\ result.raised
    \* one sleep between two consecutive attempts, none anywhere else
    /\ \A i \in 1..Len(trace) :
          /\ trace[i] = "sleep" => i > 1 /\ trace[i - 1] = "call-failed"
          /\ (i < Len(trace) /\ trace[i] = "sleep") => IsCall(trace[i + 1])
          /\ (i < Len(trace) /\ trace[i] = "call-failed") => trace[i + 1] = "sleep"
    /\ CallEnded =>
          /\ IsCall(trace[Len(trace)])
          /\ sleeps = calls - 1
          /\ CallReturned # CallRaised

\* C8: call_model_json makes at most retries + 1 calls, returns at the first
\* success without a further call, raises only on the last of retries + 1
\* failed attempts, sleeps once between consecutive attempts and never after
\* the last one, and always ends, either returning or raising.
CallIsBoundedLoop ==
    /\ BoundedAttempts
    \* until it has ended the call can take a step, and it takes at most
    \* retries + 1 attempts and retries sleeps
    /\ CallEnded \/ ENABLED (AttemptSucceeds \/ AttemptFails \/ Sleep)
    /\ Len(trace) <= 2 * retries + 1

\* the default case: the first attempt fails, one sleep, the retry succeeds
CallIsBoundedLoopWitness ==
    retries = 1 /\ cpc = "returned" /\ trace = <<"call-failed", "sleep", "call-ok">>

Normalized == cpc \in {"normalized", "rejected"}

GovernanceAliases == key_map[1].variants

FirstGovernanceAlias(output) ==
    GovernanceAliases[CHOOSE i \in Found(output, GovernanceAliases) :
                         \A j \in Found(output, GovernanceAliases) : i <= j]

BlankText(v) == v.t = "str" /\ Strip(v.s) = ""

\* C9: normalize_model_output raises an error naming the table whenever the
\* output holds no recognized alias of governance_doc_markdown or the value
\* under the first recognized alias is blank; a returned governance document is
\* the supplied one, never a default.
GovernanceIsRequired ==
    Normalized =>
        /\ ( \/ Found(raw_output, GovernanceAliases) = {}
             \/ BlankText(raw_output[FirstGovernanceAlias(raw_output)]) )
           => /\ result.raised
              /\ Contains("governance_doc_markdown", result.message)
              /\ Contains("table " \o table_name, result.message)
        /\ ~result.raised =>
              /\ Found(raw_output, GovernanceAliases) # {}
              /\ result.value["governance_doc_markdown"]
                    = raw_output[FirstGovernanceAlias(raw_output)]

\* a blank governance document next to well-formed new terms is rejected
GovernanceIsRequiredWitness ==
    /\ cpc = "rejected"
    /\ DOMAIN raw_output = {"governance_markdown", "newTerms"}
    /\ raw_output["governance_markdown"] = Str(" \n")
    /\ raw_output["newTerms"] = List(<<Str("a")>>)
    /\ table_name = "withdrawals"

AliasFixture == ("governanceMarkdown" :> Str("X")) @@ ("addedTerms" :> List(<<Str("a")>>))

\* C10: {"governanceMarkdown": "X", "addedTerms": ["a"]} normalizes to
\* {governance_doc_markdown: "X", delta_ontology_ttl: "# No delta required",
\*  new_terms: ["a"]}.
AliasFixtureNormalizes ==
    (Normalized /\ raw_output = AliasFixture) =>
        /\ ~result.raised
        /\ result.value = ( ("governance_doc_markdown" :> Str("X"))
                            @@ ("delta_ontology_ttl" :> Str("# No delta required"))
                            @@ ("new_terms" :> List(<<Str("a")>>)) )
RequiredKeys == {key_map[k].required_key : k \in 1..Len(key_map)}

Variants(required_key) ==
    key_map[CHOOSE k \in 1..Len(key_map) : key_map[k].required_key = required_key].variants

Missing(output, required_key) == Found(output, Variants(required_key)) = {}

\* the value the output holds under the first recognized alias of required_key
Supplied(output, required_key) ==
    output[Variants(required_key)[CHOOSE i \in Found(output, Variants(required_key)) :
               \A j \in Found(output, Variants(required_key)) : i <= j]]

Sentinel == Str("# No delta required")

\* the three keys, the governance document and the delta of a returned result
SchemaOfResult ==
    /\ DOMAIN result.value = RequiredKeys
    /\ ~BlankText(result.value["governance_doc_markdown"])
    /\ result.value["delta_ontology_ttl"] =
          IF Missing(raw_output, "delta_ontology_ttl")
               \/ BlankText(Supplied(raw_output, "delta_ontology_ttl"))
          THEN Sentinel
          ELSE Supplied(raw_output, "delta_ontology_ttl")

\* C11 as stated: a returned result has exactly the three keys, a non-blank
\* governance document, the sentinel delta if the delta was missing or blank and
\* the supplied delta otherwise, and new_terms empty if the key was missing,
\* [x] if a scalar x was supplied, and the supplied sequence otherwise.
OutputSchemaAsStated ==
    cpc = "normalized" =>
        /\ SchemaOfResult
        /\ result.value["new_terms"] =
              IF Missing(raw_output, "new_terms") THEN List(<<>>)
              ELSE IF Supplied(raw_output, "new_terms").t = "list"
                   THEN Supplied(raw_output, "new_terms")
                   ELSE List(<<Supplied(raw_output, "new_terms")>>)

\* C11, amended: as stated, except that new_terms is also the empty sequence
\* when the value supplied for it is null; [x] is the result for every other
\* scalar x.
OutputSchemaFixed ==
    cpc = "normalized" =>
        /\ SchemaOfResult
        /\ result.value["new_terms"] =
              IF Missing(raw_output, "new_terms")
                   \/ Supplied(raw_output, "new_terms") = None
              THEN List(<<>>)
              ELSE IF Supplied(raw_output, "new_terms").t = "list"
                   THEN Supplied(raw_output, "new_terms")
                   ELSE List(<<Supplied(raw_output, "new_terms")>>)

\* a null under an alias of new_terms, next to a governance document
OutputSchemaFixedWitness ==
    /\ cpc = "normalized"
    /\ raw_output = ("governance_markdown" :> Str("X")) @@ ("addedTerms" :> None)
    /\ result.value = ( ("governance_doc_markdown" :> Str("X"))
                        @@ ("delta_ontology_ttl" :> Sentinel)
                        @@ ("new_terms" :> List(<<>>)) )
\* the column is the source_column of a returned edge
IsSourceOfEdge(table, col) ==
    \E k \in 1..Len(relationships) :
        /\ relationships[k].source_table = table.canonical_id
        /\ relationships[k].source_column = col.canonical_id

\* C12: after discover_relationships a column has is_foreign_key = TRUE iff it
\* had it before the call or it is the source_column of a returned edge; the
\* flag is never reset, and no other field of a column or a table, nor the
\* order of the columns or the list of tables, is changed by the call.
ForeignKeyFrame ==
    Discovered =>
        /\ Len(table_objects) = Len(before)
        /\ \A s \in 1..Len(before) :
              /\ [table_objects[s] EXCEPT !.columns = before[s].columns] = before[s]
              /\ Len(table_objects[s].columns) = Len(before[s].columns)
              /\ \A c \in 1..Len(before[s].columns) :
                    /\ [table_objects[s].columns[c] EXCEPT
                           !.is_foreign_key = before[s].columns[c].is_foreign_key]
                         = before[s].columns[c]
                    /\ before[s].columns[c].is_foreign_key
                          => table_objects[s].columns[c].is_foreign_key
                    /\ table_objects[s].columns[c].is_foreign_key
                          <=> ( \/ before[s].columns[c].is_foreign_key
                                \/ IsSourceOfEdge(before[s], before[s].columns[c]) )

\* deposits[user_id, deposit_id] next to verified_user_details[user_id]: the
\* matched user_id is flagged, deposit_id is an identifier without a match
ForeignKeyFrameWitness ==
    /\ Discovered
    /\ \E s \in 1..Len(table_objects) :
          /\ table_objects[s].canonical_id = "deposits"
          /\ ColNames(table_objects[s]) = <<"user_id", "deposit_id">>
          /\ table_objects[s].columns[1].is_foreign_key
          /\ ~before[s].columns[1].is_foreign_key
          /\ ~table_objects[s].columns[2].is_foreign_key
\* the table canonical_ids of the graph, in order
TableIds == [s \in 1..Len(table_objects) |-> table_objects[s].canonical_id]

RECURSIVE ColumnIdsFrom(_)
\* the column canonical_ids of the graph, table after table
ColumnIdsFrom(s) ==
    IF s > Len(table_objects) THEN <<>>
    ELSE [c \in 1..Len(table_objects[s].columns) |->
              table_objects[s].columns[c].canonical_id]
         \o ColumnIdsFrom(s + 1)

PairwiseDistinct(ids) == \A i, j \in 1..Len(ids) : ids[i] = ids[j] => i = j

\* C13: in the graph process_csv_files returns, whatever the rows were (rows of
\* a raw table and of its enriched counterpart, repeated rows), the table
\* canonical_ids are pairwise distinct and the column canonical_ids are
\* pairwise distinct, so that an endpoint string designates one column.
CanonicalIdsDistinct ==
    Discovered =>
        /\ PairwiseDistinct(TableIds)
        /\ PairwiseDistinct(ColumnIdsFrom(1))
        /\ \A k \in 1..Len(relationships) :
              Cardinality({ <<s, c>> \in (1..Len(table_objects)) \X (1..MaxRows) :
                              /\ c <= Len(table_objects[s].columns)
                              /\ table_objects[s].columns[c].canonical_id
                                    = relationships[k].source_column }) = 1
\* positions of the first n items that carry a technical_table
Named(n) ==
    SelectSeq([i \in 1..n |-> i], LAMBDA i : ~Falsy(grounding_data[i].technical_table))

Last(seq) == seq[Len(seq)]

\* C14: main processes the tables one at a time in input order and skips the
\* entries without a technical_table; results holds one entry per processed
\* table in that order; the output file is written only after every table has
\* succeeded: when the call or the normalization of a table fails, no later
\* table is processed and the results obtained so far are not written.
BatchInOrder ==
    mpc # "idle" =>
        \* the tables announced so far are the named items up to the loop position
        /\ processing = Named(IF mpc \in {"call", "aborted"} THEN item_no ELSE item_no - 1)
        \* the single call in flight is the one of the item at the loop position
        /\ mpc = "call" =>
              /\ cpc \in {"try", "sleep", "returned", "normalized", "raised", "rejected"}
              /\ table_name = grounding_data[item_no].technical_table.s
        /\ mpc \in {"loop", "done"} => cpc = "idle"
        \* one entry per table that went through, in input order
        /\ Len(results) = Len(Named(item_no - 1))
        /\ \A j \in 1..Len(results) :
              /\ results[j].table = grounding_data[Named(item_no - 1)[j]].technical_table.s
              /\ DOMAIN results[j].output = RequiredKeys
        \* written once, at the end, with every named table in it
        /\ output_file # <<>> =>
              /\ mpc = "done"
              /\ output_file = <<results>>
              /\ Len(results) = Len(Named(Len(grounding_data)))
        /\ mpc = "done" => output_file # <<>>
        \* a failure ends the run at the failing table, with nothing written
        /\ mpc = "aborted" =>
              /\ result.raised
              /\ Last(processing) = item_no
              /\ output_file = <<>>
              /\ ~ENABLED MNext

\* three named tables: the first went through, the second was rejected by
\* normalize_model_output, the third is never started and nothing is written
BatchInOrderWitness ==
    /\ mpc = "aborted"
    /\ Len(grounding_data) = 3
    /\ \A i \in 1..3 : ~Falsy(grounding_data[i].technical_table)
    /\ item_no = 2 /\ cpc = "rejected"
    /\ Len(results) = 1
    /\ processing = <<1, 2>>
    /\ output_file = <<>>
=============================================================================
